---------------------------- MODULE Spec2Model ----------------------------
(* A model of the Standard MIDI File decoder of src/src/midi/formats.rs.   *)
(* The byte source is a sequence of bytes (0..255) with a cursor; every    *)
(* reader is an operator from (stream, cursor) to an outcome: a value and  *)
(* the new cursor, a ParseError, or a panic.                               *)
EXTENDS Integers, Sequences, FiniteSets, TLC

VARIABLES
    input,            \* the bytes of the stream known so far
    eof,              \* TRUE once the stream has ended: input is the whole stream
    supplied,         \* how many pieces the stream was assembled from, and which
    pos,              \* BufRead cursor: number of bytes consumed
    pc,               \* position of the decode: "header", "track", "event", "done", ...
    header,           \* Smf::read: the decoded HeaderChunk
    tracks,           \* Smf::read: `tracks`, the Vec<TrackChunk> built so far
    cur,              \* TrackChunk::read: tag and track_len of the track being read
    events,           \* TrackChunk::read: `events`
    previous_status,  \* TrackChunk::read: `previous_status`
    peeks,            \* for each element of events, the index in input of the byte
                      \* that fill_buf()[0] showed when it was decoded
    result,           \* what the entry point returned
    arg,              \* the value a reader or query is exercised on, when run alone
    ret               \* what that reader or query returned

vars == <<input, eof, supplied, pos, pc, header, tracks, cur, events,
          previous_status, peeks, result, arg, ret>>

----------------------------------------------------------------------------
(* Outcomes of a reader *)

Ok(v, p) == [st |-> "ok", val |-> v, pos |-> p]

Fail(e) == [st |-> "err", err |-> e]

Panicked == [st |-> "panic"]

(* ParseError and its variants *)
IOError(k) == [kind |-> "IOError", io |-> k]

UnexpectedTag(t) == [kind |-> "UnexpectedTag", val |-> t]

UnexpectedFormat(f) == [kind |-> "UnexpectedFormat", val |-> f]

NotCommand(b) == [kind |-> "NotCommand", val |-> b]

NotData(b) == [kind |-> "NotData", val |-> b]

NotSupportedSystemMessage(b) == [kind |-> "NotSupportedSystemMessage", val |-> b]

is_eof(e) == e.kind = "IOError" /\ e.io = "UnexpectedEof"

(* The `?` operator: go on with the value of r, or return r's error *)
Try(r, K(_)) == IF r.st = "ok" THEN K(r) ELSE r

(* Read::read_exact on n bytes: UnexpectedEof whenever fewer than n bytes  *)
(* are left, whether or not some of them could be read.                    *)
read_exact(s, p, n) ==
    IF p + n > Len(s)
    THEN Fail(IOError("UnexpectedEof"))
    ELSE Ok(SubSeq(s, p + 1, p + n), p + n)

from_be_bytes(bytes) ==
    LET F[i \in 0..Len(bytes)] == IF i = 0 THEN 0 ELSE F[i - 1] * 256 + bytes[i]
    IN  F[Len(bytes)]

(* The 16 bits of u read as a two's complement number *)
as_i16(u) == IF u >= 32768 THEN u - 65536 ELSE u

u8_read(s, p) ==
    Try(read_exact(s, p, 1), LAMBDA r : Ok(from_be_bytes(r.val), r.pos))

u32_read(s, p) ==
    Try(read_exact(s, p, 4), LAMBDA r : Ok(from_be_bytes(r.val), r.pos))

u16_read(s, p) ==
    Try(read_exact(s, p, 2), LAMBDA r : Ok(from_be_bytes(r.val), r.pos))

i16_read(s, p) ==
    Try(read_exact(s, p, 2), LAMBDA r : Ok(as_i16(from_be_bytes(r.val)), r.pos))

----------------------------------------------------------------------------
(* Tag, Format, U28, U7, U14, Slice, MetaMessage *)

MThd == <<77, 84, 104, 100>>

MTrk == <<77, 84, 114, 107>>

Tag_read(s, p) ==
    Try(read_exact(s, p, 4), LAMBDA r :
        IF r.val = MThd THEN Ok("Header", r.pos)
        ELSE IF r.val = MTrk THEN Ok("Track", r.pos)
        ELSE Fail(UnexpectedTag(r.val)))

Format_read(s, p) ==
    Try(u16_read(s, p), LAMBDA r :
        IF r.val = 0 THEN Ok("SingleTrack", r.pos)
        ELSE IF r.val = 1 THEN Ok("MultipleTrack", r.pos)
        ELSE IF r.val = 2 THEN Ok("MultipleSong", r.pos)
        ELSE Fail(UnexpectedFormat(r.val)))

(* U28_loop with the test for the continuation bit off by one: 0x80 ends   *)
(* the number                                                              *)
RECURSIVE U28_loop_late(_, _, _, _)
U28_loop_late(s, p, inner, i) ==
    IF i = 4 THEN Ok(inner, p)
    ELSE Try(u8_read(s, p), LAMBDA r :
             IF r.val > 128
             THEN U28_loop_late(s, r.pos, inner * 128 + (r.val % 128), i + 1)
             ELSE Ok(inner * 128 + r.val, r.pos))

(* The loop of U28::read before its iteration i; inner is below 2^21 when  *)
(* it is shifted, so no bit leaves the u32.                                *)
RECURSIVE U28_loop(_, _, _, _)
U28_loop(s, p, inner, i) ==
    IF i = 4 THEN Ok(inner, p)
    ELSE Try(u8_read(s, p), LAMBDA r :
             IF r.val >= 128
             THEN U28_loop(s, r.pos, inner * 128 + (r.val % 128), i + 1)
             ELSE Ok(inner * 128 + r.val, r.pos))

U28_read(s, p) == U28_loop(s, p, 0, 0)

U7_read(s, p) ==
    Try(u8_read(s, p), LAMBDA r :
        IF r.val >= 128 THEN Fail(NotData(r.val)) ELSE Ok(r.val, r.pos))

(* U14_read with the two bytes packed the other way round *)
U14_read_swapped(s, p) ==
    Try(u8_read(s, p), LAMBDA high :
    Try(u8_read(s, high.pos), LAMBDA low :
        Ok((((high.val % 128) * 128) % 65536) + (low.val % 128), low.pos)))

U14_read(s, p) ==
    Try(u8_read(s, p), LAMBDA high :
    Try(u8_read(s, high.pos), LAMBDA low :
        Ok((((low.val % 128) * 128) % 65536) + (high.val % 128), low.pos)))

Slice_read(s, p) ==
    Try(U28_read(s, p), LAMBDA data_len :
        read_exact(s, data_len.pos, data_len.val))

hexify(b) == IF b <= 9 THEN 48 + b ELSE 97 + b - 10

to_ascii_byte(c) ==
    IF c = 9 THEN <<92, 116>>
    ELSE IF c = 13 THEN <<92, 114>>
    ELSE IF c = 10 THEN <<92, 110>>
    ELSE IF c = 92 THEN <<92, 92>>
    ELSE IF c = 39 THEN <<92, 39>>
    ELSE IF c = 34 THEN <<92, 34>>
    ELSE IF c >= 32 /\ c <= 126 THEN <<c>>
    ELSE <<92, 120, hexify(c \div 16), hexify(c % 16)>>

to_ascii(bytes) ==
    LET F[i \in 0..Len(bytes)] ==
            IF i = 0 THEN <<>> ELSE F[i - 1] \o to_ascii_byte(bytes[i])
    IN  F[Len(bytes)]

to_u32(nums) ==
    LET n == IF Len(nums) < 4 THEN Len(nums) ELSE 4
        F[i \in 0..n] ==
            IF i = 0 THEN 0 ELSE F[i - 1] * 256 + nums[i]   \* at most 32 bits
    IN  F[n]

MetaKind(t) ==
    CASE t = 0 -> "SequenceNumber"
      [] t = 1 -> "Text"
      [] t = 2 -> "Copyright"
      [] t = 3 -> "TrackName"
      [] t = 4 -> "InstrumentName"
      [] t = 5 -> "Lyric"
      [] t = 6 -> "Marker"
      [] t = 7 -> "CuePoint"
      [] t = 32 -> "ChannelPrefix"
      [] t = 47 -> "EndOfTrack"
      [] t = 81 -> "Tempo"
      [] t = 84 -> "SmpteOffset"
      [] t = 88 -> "TimeSignature"
      [] t = 89 -> "KeySignature"
      [] t = 127 -> "SequencerSpecific"
      [] OTHER -> "Unknown"

(* What the variant of type byte t holds: a String, a u32 or the Slice *)
MetaPayload(t, bytes) ==
    IF t \in 1..7 THEN to_ascii(bytes)
    ELSE IF t = 81 THEN <<to_u32(bytes)>>
    ELSE bytes

MetaMessage_read(s, p) ==
    Try(u8_read(s, p), LAMBDA t :
    Try(Slice_read(s, t.pos), LAMBDA sl :
        Ok([meta |-> MetaKind(t.val), data |-> MetaPayload(t.val, sl.val)],
           sl.pos)))

----------------------------------------------------------------------------
(* HeaderChunk::read, TrackChunk::read and Event::is_end *)

HeaderChunk_read(s, p) ==
    Try(Tag_read(s, p), LAMBDA tag :
    Try(u32_read(s, tag.pos), LAMBDA header_len :
    Try(Format_read(s, header_len.pos), LAMBDA format :
    Try(u16_read(s, format.pos), LAMBDA track_num :
    Try(i16_read(s, track_num.pos), LAMBDA division :
        Ok([tag |-> tag.val, header_len |-> header_len.val,
            format |-> format.val, track_num |-> track_num.val,
            division |-> division.val], division.pos))))))

(* The first two fields of TrackChunk::read: tag and track_len *)
TrackChunk_open(s, p) ==
    Try(Tag_read(s, p), LAMBDA tag :
    Try(u32_read(s, tag.pos), LAMBDA track_len :
        Ok([tag |-> tag.val, track_len |-> track_len.val], track_len.pos)))

TwoData(name, s, p) ==
    Try(U7_read(s, p), LAMBDA a :
    Try(U7_read(s, a.pos), LAMBDA b :
        Ok([msg |-> name, data |-> <<a.val, b.val>>], b.pos)))

OneData(name, s, p) ==
    Try(U7_read(s, p), LAMBDA a : Ok([msg |-> name, data |-> <<a.val>>], a.pos))

(* The inner match of TrackChunk::read on the command nibble 0x8..0xE;     *)
(* data lists the fields of the variant in declaration order.              *)
MidiMessage_read(command, s, p) ==
    CASE command = 8 -> TwoData("NoteOff", s, p)
      [] command = 9 -> TwoData("NoteOn", s, p)
      [] command = 10 -> TwoData("Aftertouch", s, p)
      [] command = 11 -> TwoData("ControlChange", s, p)
      [] command = 12 -> OneData("PatchChange", s, p)
      [] command = 13 -> OneData("ChannelPressure", s, p)
      [] command = 14 ->
            Try(U14_read(s, p), LAMBDA v :
                Ok([msg |-> "PitchBend", data |-> <<v.val>>], v.pos))

(* The match on (high, low) of TrackChunk::read *)
Event_read(new_status, s, p) ==
    LET high == new_status \div 16
        low == new_status % 16
    IN  IF high >= 8 /\ high < 15
        THEN Try(MidiMessage_read(high, s, p), LAMBDA m :
                 Ok([kind |-> "Midi", channel |-> low, midi_msg |-> m.val], m.pos))
        ELSE IF high = 15
        THEN IF low = 0 \/ low = 7
             THEN Try(Slice_read(s, p), LAMBDA sl :
                      Ok([kind |-> "Sysex", sysex_msg |-> sl.val], sl.pos))
             ELSE IF low = 15
             THEN Try(MetaMessage_read(s, p), LAMBDA mm :
                      Ok([kind |-> "Meta", meta_msg |-> mm.val], mm.pos))
             ELSE Fail(NotSupportedSystemMessage(new_status))
        ELSE Panicked

(* After the status byte has been settled: decode the event and hand back  *)
(* the TrackEvent with the status to carry into the next iteration.        *)
TrackChunk_event(delta, new_status, carried, peek, s, p) ==
    Try(Event_read(new_status, s, p), LAMBDA e :
        Ok([track_event |-> [delta |-> delta, event |-> e.val],
            previous_status |-> carried, peek |-> peek], e.pos))

(* TrackChunk_step with the peeked byte consumed also when the running     *)
(* status is reused                                                        *)
TrackChunk_step_consuming(s, p, prev) ==
    Try(U28_read(s, p), LAMBDA delta :
        IF delta.pos >= Len(s) THEN Panicked
        ELSE IF s[delta.pos + 1] < 128
             THEN IF prev < 128
                  THEN Fail(NotCommand(s[delta.pos + 1]))
                  ELSE TrackChunk_event(delta.val, prev, prev, delta.pos + 1, s,
                                        delta.pos + 1)
             ELSE TrackChunk_event(delta.val, s[delta.pos + 1], s[delta.pos + 1],
                                   delta.pos + 1, s, delta.pos + 1))

(* One iteration of the loop of TrackChunk::read, with previous_status as  *)
(* it stands at the top of the iteration. fill_buf() on an exhausted       *)
(* stream gives an empty slice, and indexing it with [0] panics; the byte  *)
(* it shows otherwise is s[delta.pos + 1], consumed only when >= 0x80.     *)
TrackChunk_step(s, p, prev) ==
    Try(U28_read(s, p), LAMBDA delta :
        IF delta.pos >= Len(s) THEN Panicked
        ELSE IF s[delta.pos + 1] < 128
             THEN IF prev < 128
                  THEN Fail(NotCommand(s[delta.pos + 1]))
                  ELSE TrackChunk_event(delta.val, prev, prev, delta.pos + 1, s,
                                        delta.pos)
             ELSE TrackChunk_event(delta.val, s[delta.pos + 1], s[delta.pos + 1],
                                   delta.pos + 1, s, delta.pos + 1))

(* is_end taking every meta event for the end of the track *)
is_end_any_meta(event) == event.kind = "Meta"

is_end(event) ==
    IF event.kind = "Meta" THEN event.meta_msg.meta = "EndOfTrack" ELSE FALSE

(* Smf::timebase; dividing by zero panics *)
timebase(smf) ==
    LET division == smf.header.division
        default_tempo == 500000
        fps == (division \div 256) % 128
        tpf == division % 256
    IN  IF division > 0
        THEN [st |-> "ok", val |-> default_tempo \div division]
        ELSE IF fps * tpf = 0
             THEN Panicked
             ELSE [st |-> "ok", val |-> 1000000 \div (fps * tpf)]

----------------------------------------------------------------------------
(* The streams the decoder is run on. A stream is assembled piece by piece *)
(* while the decoder waits for bytes: a header, then chunk wrappers and    *)
(* events; it ends after a whole piece or inside one.                      *)

MaxPieces == 6

HeaderBytes(tag, format, track_num, hi, lo) ==
    tag \o <<0, 0, 0, 6>> \o <<0, format>> \o <<0, track_num>> \o <<hi, lo>>

HeaderPieces ==
    { [name |-> "Header0", bytes |-> HeaderBytes(MThd, 0, 0, 0, 96)],
      [name |-> "Header1", bytes |-> HeaderBytes(MThd, 1, 1, 0, 96)],
      [name |-> "Header2", bytes |-> HeaderBytes(MThd, 2, 2, 231, 40)],
      [name |-> "HeaderAsTrack", bytes |-> HeaderBytes(MTrk, 1, 1, 0, 96)],
      [name |-> "HeaderXYZZ", bytes |-> HeaderBytes(<<88, 89, 90, 90>>, 1, 1, 0, 96)],
      [name |-> "HeaderFormat3", bytes |-> HeaderBytes(MThd, 3, 1, 0, 96)] }

ChunkPieces ==
    { [name |-> "Track", bytes |-> MTrk \o <<0, 0, 0, 4>>],
      [name |-> "TrackAsHeader", bytes |-> MThd \o <<0, 0, 0, 4>>],
      [name |-> "TrackXYZZ", bytes |-> <<88, 89, 90, 90, 0, 0, 0, 4>>] }

EventPieces ==
    { [name |-> "NoteOn", bytes |-> <<129, 0, 145, 60, 64>>],    \* 81 00 91 3C 40
      [name |-> "Running", bytes |-> <<0, 62, 65>>],             \* 00 3E 41
      [name |-> "Omitted", bytes |-> <<0, 1, 0>>],               \* 00 01 00
      [name |-> "PatchChange", bytes |-> <<0, 194, 5>>],         \* 00 C2 05
      [name |-> "Sysex", bytes |-> <<0, 240, 1, 247>>],          \* 00 F0 01 F7
      [name |-> "TrackName", bytes |-> <<0, 255, 3, 1, 9>>],     \* 00 FF 03 01 09
      [name |-> "EndOfTrack", bytes |-> <<0, 255, 47, 0>>],      \* 00 FF 2F 00
      [name |-> "System", bytes |-> <<0, 241>>],                 \* 00 F1
      [name |-> "NotData", bytes |-> <<0, 145, 128>>] }          \* 00 91 80

Names(pieces) == { q.name : q \in pieces }

(* The proper, non-empty prefixes of the pieces: a stream cut short *)
Cuts(pieces) ==
    UNION { { SubSeq(q.bytes, 1, k) : k \in 1..(Len(q.bytes) - 1) } : q \in pieces }

----------------------------------------------------------------------------
(* The decode as a state machine *)

NoHeader == [tag |-> "None", header_len |-> 0, format |-> "None",
             track_num |-> 0, division |-> 0]

NoTrack == [tag |-> "None", track_len |-> 0]

Init ==
    /\ input = <<>>
    /\ eof = FALSE
    /\ supplied = <<>>
    /\ pos = 0
    /\ pc = "header"
    /\ header = NoHeader
    /\ tracks = <<>>
    /\ cur = NoTrack
    /\ events = <<>>
    /\ previous_status = 0
    /\ peeks = <<>>
    /\ result = [st |-> "None"]
    /\ arg = 0
    /\ ret = [st |-> "None"]

(* What the reader at pc does on the bytes known so far *)
Outcome ==
    CASE pc = "header" -> HeaderChunk_read(input, pos)
      [] pc = "track" -> TrackChunk_open(input, pos)
      [] pc = "event" -> TrackChunk_step(input, pos, previous_status)
      [] OTHER -> Ok(0, pos)

(* The reader ran into the end of the bytes known so far *)
HitEnd(r) == r.st = "panic" \/ (r.st = "err" /\ is_eof(r.err))

(* The read blocks: the stream has not ended and the reader needs more *)
Starved == ~eof /\ HitEnd(Outcome)

decoder == <<pos, pc, header, tracks, cur, events, previous_status, peeks,
             result, arg, ret>>

(* The pieces the stream may go on with after those supplied so far: a     *)
(* header first, chunks after a header or an end-of-track event, else the  *)
(* events of the open chunk or the next chunk.                             *)
Offered ==
    IF Len(supplied) >= MaxPieces THEN {}
    ELSE IF supplied = <<>> THEN HeaderPieces
    ELSE IF supplied[Len(supplied)] \in Names(HeaderPieces) \cup {"EndOfTrack"}
         THEN ChunkPieces
         ELSE EventPieces \cup { q \in ChunkPieces : q.name = "Track" }

(* The stream goes on with one more piece *)
Supply ==
    /\ Starved
    /\ \E q \in Offered :
          /\ input' = input \o q.bytes
          /\ supplied' = Append(supplied, q.name)
    /\ UNCHANGED <<eof, decoder>>

(* The stream ends here *)
EndOfInput ==
    /\ Starved
    /\ eof' = TRUE
    /\ UNCHANGED <<input, supplied, decoder>>

(* The stream ends inside a piece *)
CutShort ==
    /\ Starved
    /\ \E c \in Cuts(Offered) :
          /\ input' = input \o c
          /\ supplied' = Append(supplied, "Cut")
    /\ eof' = TRUE
    /\ UNCHANGED decoder

stream == <<input, eof, supplied>>

(* Smf::read, `header: HeaderChunk::read(buf)?` *)
ReadHeader ==
    /\ pc = "header"
    /\ ~Starved
    /\ LET r == HeaderChunk_read(input, pos)
       IN  IF r.st = "ok"
           THEN /\ header' = r.val
                /\ pos' = r.pos
                /\ pc' = "track"
                /\ UNCHANGED result
           ELSE /\ pc' = "done"
                /\ result' = [st |-> "Err", err |-> r.err]
                /\ UNCHANGED <<header, pos>>
    /\ UNCHANGED <<stream, tracks, cur, events, previous_status, peeks, arg, ret>>

(* Smf::read, the Err(pe) arm of the match on TrackChunk::read(buf) *)
SmfReadErr(pe) ==
    /\ pc' = "done"
    /\ result' = IF is_eof(pe)
                 THEN [st |-> "Ok", smf |-> [header |-> header, tracks |-> tracks]]
                 ELSE [st |-> "Err", err |-> pe]

(* OpenTrack with previous_status kept from the track before *)
OpenTrack_keeping_status ==
    /\ pc = "track"
    /\ ~Starved
    /\ LET r == TrackChunk_open(input, pos)
       IN  IF r.st = "ok"
           THEN /\ cur' = r.val
                /\ events' = <<>>
                /\ peeks' = <<>>
                /\ pos' = r.pos
                /\ pc' = "event"
                /\ UNCHANGED <<result, previous_status>>
           ELSE /\ SmfReadErr(r.err)
                /\ UNCHANGED <<cur, events, peeks, previous_status, pos>>
    /\ UNCHANGED <<stream, header, tracks, arg, ret>>

(* TrackChunk::read up to the loop: tag, track_len, the two locals *)
OpenTrack ==
    /\ pc = "track"
    /\ ~Starved
    /\ LET r == TrackChunk_open(input, pos)
       IN  IF r.st = "ok"
           THEN /\ cur' = r.val
                /\ events' = <<>>
                /\ peeks' = <<>>
                /\ previous_status' = 0
                /\ pos' = r.pos
                /\ pc' = "event"
                /\ UNCHANGED result
           ELSE /\ SmfReadErr(r.err)
                /\ UNCHANGED <<cur, events, peeks, previous_status, pos>>
    /\ UNCHANGED <<stream, header, tracks, arg, ret>>

(* ReadEvent with the loop going on after the end-of-track event *)
ReadEvent_without_break ==
    /\ pc = "event"
    /\ ~Starved
    /\ LET r == TrackChunk_step(input, pos, previous_status)
           pushed == Append(events, r.val.track_event)
       IN  CASE r.st = "ok" ->
                 /\ events' = pushed
                 /\ peeks' = Append(peeks, r.val.peek)
                 /\ previous_status' = r.val.previous_status
                 /\ pos' = r.pos
                 /\ UNCHANGED <<tracks, pc>>
                 /\ UNCHANGED result
              [] r.st = "err" ->
                 /\ SmfReadErr(r.err)
                 /\ UNCHANGED <<events, peeks, previous_status, pos, tracks>>
              [] r.st = "panic" ->
                 /\ pc' = "done"
                 /\ result' = [st |-> "Panic"]
                 /\ UNCHANGED <<events, peeks, previous_status, pos, tracks>>
    /\ UNCHANGED <<stream, header, cur, arg, ret>>

(* One iteration of the loop of TrackChunk::read; on the end-of-track      *)
(* event the track is returned and Smf::read pushes it. When the iteration *)
(* fails, events keeps the value the local had when it was dropped.        *)
ReadEvent ==
    /\ pc = "event"
    /\ ~Starved
    /\ LET r == TrackChunk_step(input, pos, previous_status)
           pushed == Append(events, r.val.track_event)
       IN  CASE r.st = "ok" ->
                 /\ events' = pushed
                 /\ peeks' = Append(peeks, r.val.peek)
                 /\ previous_status' = r.val.previous_status
                 /\ pos' = r.pos
                 /\ IF is_end(r.val.track_event.event)
                    THEN /\ tracks' = Append(tracks, [tag |-> cur.tag,
                                                      track_len |-> cur.track_len,
                                                      events |-> pushed])
                         /\ pc' = "track"
                    ELSE UNCHANGED <<tracks, pc>>
                 /\ UNCHANGED result
              [] r.st = "err" ->
                 /\ SmfReadErr(r.err)
                 /\ UNCHANGED <<events, peeks, previous_status, pos, tracks>>
              [] r.st = "panic" ->
                 /\ pc' = "done"
                 /\ result' = [st |-> "Panic"]
                 /\ UNCHANGED <<events, peeks, previous_status, pos, tracks>>
    /\ UNCHANGED <<stream, header, cur, arg, ret>>

Next == Supply \/ EndOfInput \/ CutShort \/ ReadHeader \/ OpenTrack \/ ReadEvent

Spec == Init /\ [][Next]_vars

----------------------------------------------------------------------------
(* What a stream assembled from pieces is, read off the names of its       *)
(* pieces and not off the decode.                                          *)

DeclaredTracks(names) ==
    IF names = <<>> THEN -1
    ELSE CASE names[1] = "Header0" -> 0
           [] names[1] = "Header1" -> 1
           [] names[1] = "Header2" -> 2
           [] OTHER -> -1

(* After i pieces: "chunk" between chunks, "bad" once the grammar is       *)
(* broken, otherwise inside a track: "two" when a running status with two  *)
(* data bytes is in force, "in" when none is.                              *)
Grammar(names) ==
    LET G[i \in 1..Len(names)] ==
            LET before == IF i = 1 THEN "start" ELSE G[i - 1]
                n == names[i]
            IN  CASE before = "start" ->
                       IF DeclaredTracks(names) >= 0 THEN "chunk" ELSE "bad"
                  [] before = "bad" -> "bad"
                  [] before = "chunk" -> IF n = "Track" THEN "in" ELSE "bad"
                  [] n = "NoteOn" -> "two"
                  [] n = "Running" -> IF before = "two" THEN "two" ELSE "bad"
                  [] n \in {"PatchChange", "Sysex", "TrackName"} -> "in"
                  [] n = "EndOfTrack" -> "chunk"
                  [] OTHER -> "bad"
    IN  G

(* A header declaring N tracks, then exactly N track chunks, each ended by *)
(* its end-of-track event                                                  *)
WellFormed(names) ==
    /\ names # <<>>
    /\ Grammar(names)[Len(names)] = "chunk"
    /\ Cardinality({ i \in 1..Len(names) : names[i] = "Track" })
          = DeclaredTracks(names)

(* The names of the event pieces of the k-th track chunk of the stream *)
EventsOfTrack(names, k) ==
    LET starts == { i \in 1..Len(names) : names[i] = "Track" }
        start == CHOOSE i \in starts :
                    Cardinality({ j \in starts : j <= i }) = k
        later == { i \in starts : i > start }
        stop == IF later = {} THEN Len(names) + 1
                ELSE CHOOSE i \in later : \A j \in later : i <= j
    IN  SubSeq(names, start + 1, stop - 1)

EventClass(n) ==
    CASE n \in {"NoteOn", "Running", "PatchChange"} -> "Midi"
      [] n = "Sysex" -> "Sysex"
      [] n \in {"TrackName", "EndOfTrack"} -> "Meta"

EndOfTrackEvent(e) == e.kind = "Meta" /\ e.meta_msg.meta = "EndOfTrack"

(* The first data byte a channel-voice message was built from *)
FirstData(m) == IF m.msg = "PitchBend" THEN m.data[1] % 128 ELSE m.data[1]

----------------------------------------------------------------------------
(* Properties of the decode *)

(* C1: on every finite stream the decode returns a decoded Smf or a        *)
(* ParseError and ends in no other way (no panic), also when the stream    *)
(* ends right after the delta-time of an event.                            *)
C1_NoAbort ==
    pc = "done" => result.st \in {"Ok", "Err"}

(* C2: when the stream runs out inside an event or a chunk, at least one   *)
(* byte of it being there, the whole decode fails with an I/O ParseError.  *)
C2_ShortfallIsFatal ==
    [][ ( /\ eof
          /\ pc \in {"header", "track", "event"}
          /\ pos < Len(input)
          /\ Outcome.st = "err"
          /\ is_eof(Outcome.err) )
        => ( /\ result'.st = "Err"
             /\ result'.err.kind = "IOError" ) ]_vars

(* C3: when the stream is exhausted exactly where a new event of a track   *)
(* would start, after at least one event and before any end-of-track, the  *)
(* decode returns an Smf whose tracks include that track with the events   *)
(* decoded so far.                                                         *)
C3_CleanEndKeepsTrack ==
    [][ ( /\ eof
          /\ pc = "event"
          /\ pos = Len(input)
          /\ events # <<>> )
        => ( /\ result'.st = "Ok"
             /\ Len(result'.smf.tracks) = Len(tracks) + 1
             /\ result'.smf.tracks[Len(tracks) + 1].events = events ) ]_vars

(* C4: on a header declaring N tracks followed by exactly N track chunks,  *)
(* each ended by an end-of-track event, and then the end of input, the     *)
(* decode succeeds with N tracks in the order of the stream, each ending   *)
(* with its end-of-track event. A decode that is done before the stream    *)
(* has ended has the result it has when the stream ends there.             *)
C4_WellFormedDecodes ==
    (pc = "done" /\ WellFormed(supplied)) =>
        /\ result.st = "Ok"
        /\ Len(result.smf.tracks) = DeclaredTracks(supplied)
        /\ result.smf.header.track_num = DeclaredTracks(supplied)
        /\ \A k \in 1..Len(result.smf.tracks) :
              LET decoded == result.smf.tracks[k].events
                  expected == EventsOfTrack(supplied, k)
              IN  /\ Len(decoded) = Len(expected)
                  /\ \A j \in 1..Len(decoded) :
                        decoded[j].event.kind = EventClass(expected[j])
                  /\ EndOfTrackEvent(decoded[Len(decoded)].event)
                  /\ \A j \in 1..(Len(decoded) - 1) :
                        ~EndOfTrackEvent(decoded[j].event)

C4_Witness ==
    /\ pc = "done"
    /\ eof
    /\ supplied = <<"Header2", "Track", "EndOfTrack", "Track", "NoteOn", "EndOfTrack">>
    /\ result.st = "Ok"
    /\ Len(result.smf.tracks) = 2

(* C5: in a track, when an event with a channel-voice status byte          *)
(* (0x80..0xEF) is followed by an event whose first byte after the         *)
(* delta-time is below 0x80, the second event is a Midi event with the     *)
(* channel and the message type of the first, that byte is its first data  *)
(* byte, and the stored running status stays the first event's status; the *)
(* byte is never refused as "not a command".                               *)
C5_RunningStatus ==
    /\ \A i \in 2..Len(events) :
          LET first == input[peeks[i - 1]]
              b == input[peeks[i]]
              e1 == events[i - 1].event
              e2 == events[i].event
          IN  (first \in 128..239 /\ b < 128) =>
                 /\ e2.kind = "Midi"
                 /\ e2.channel = first % 16
                 /\ e2.channel = e1.channel
                 /\ e2.midi_msg.msg = e1.midi_msg.msg
                 /\ FirstData(e2.midi_msg) = b
                 /\ (i = Len(events) => previous_status = first)
    /\ (pc = "done" /\ result.st = "Err" /\ events # <<>>) =>
          result.err.kind # "NotCommand"

C5_Witness ==
    /\ Len(events) >= 2
    /\ input[peeks[1]] = 145
    /\ input[peeks[2]] = 62
    /\ events[2].event.kind = "Midi"

(* C6: in any track, a byte b below 0x80 at the status position of the     *)
(* track's first event makes the decode fail with NotCommand(b), whatever  *)
(* status bytes the tracks before it held.                                 *)
C6_StatusPerTrack ==
    [][ ( /\ pc = "event"
          /\ events = <<>>
          /\ U28_read(input, pos).st = "ok"
          /\ U28_read(input, pos).pos < Len(input)
          /\ input[U28_read(input, pos).pos + 1] < 128 )
        => ( /\ pc' = "done"
             /\ result' = [st |-> "Err",
                           err |-> NotCommand(input[U28_read(input, pos).pos + 1])] )
      ]_vars

C6_Witness ==
    /\ pc = "done"
    /\ result.st = "Err"
    /\ result.err.kind = "NotCommand"
    /\ Len(tracks) >= 1
    /\ \E j \in 1..Len(tracks[1].events) : tracks[1].events[j].event.kind = "Midi"

(* C7: in every successfully decoded Smf the header's tag is the header    *)
(* tag and every track's tag is the track tag.                             *)
C7_TagsMatchChunks ==
    (pc = "done" /\ result.st = "Ok") =>
        /\ result.smf.header.tag = "Header"
        /\ \A k \in 1..Len(result.smf.tracks) : result.smf.tracks[k].tag = "Track"

----------------------------------------------------------------------------
(* Smf::timebase run on what a decode returned. The streams are a header   *)
(* followed by the end of input; the two division bytes vary.              *)

DivisionHigh == {0, 1, 3, 127, 128, 129, 226, 231, 255}

DivisionLow == {0, 1, 40, 96, 128, 224, 255}

InitTimebase ==
    /\ \E hi \in DivisionHigh, lo \in DivisionLow :
          input = HeaderBytes(MThd, 1, 0, hi, lo)
    /\ eof = TRUE
    /\ supplied = <<"Header">>
    /\ pos = 0
    /\ pc = "header"
    /\ header = NoHeader
    /\ tracks = <<>>
    /\ cur = NoTrack
    /\ events = <<>>
    /\ previous_status = 0
    /\ peeks = <<>>
    /\ result = [st |-> "None"]
    /\ arg = 0
    /\ ret = [st |-> "None"]

Timebase ==
    /\ pc = "done"
    /\ result.st = "Ok"
    /\ ret' = timebase(result.smf)
    /\ pc' = "returned"
    /\ UNCHANGED <<stream, pos, header, tracks, cur, events, previous_status,
                   peeks, result, arg>>

NextTimebase == ReadHeader \/ OpenTrack \/ Timebase

SpecTimebase == InitTimebase /\ [][NextTimebase]_vars

----------------------------------------------------------------------------
(* U28::read run alone on the variable-length encoding of a number, with   *)
(* or without a byte after it.                                             *)

Groups == {0, 1, 2, 127}

(* The numbers below 2^28 whose four 7-bit groups are in Groups *)
U28Values ==
    { ((a * 128 + b) * 128 + c) * 128 + d : a, b, c, d \in Groups }

(* 7-bit groups, most significant first, the continuation bit on all but   *)
(* the last byte, no leading zero group                                    *)
RECURSIVE VlqHead(_)
VlqHead(v) ==
    IF v = 0 THEN <<>> ELSE Append(VlqHead(v \div 128), 128 + (v % 128))

VlqEncode(v) == Append(VlqHead(v \div 128), v % 128)

Trailers == { <<>>, <<255>>, <<0>>, <<129, 127>> }

InitU28 ==
    /\ arg \in U28Values
    /\ \E trail \in Trailers : input = VlqEncode(arg) \o trail
    /\ eof = TRUE
    /\ supplied = <<"U28">>
    /\ pos = 0
    /\ pc = "U28"
    /\ header = NoHeader
    /\ tracks = <<>>
    /\ cur = NoTrack
    /\ events = <<>>
    /\ previous_status = 0
    /\ peeks = <<>>
    /\ result = [st |-> "None"]
    /\ ret = [st |-> "None"]

ReadU28 ==
    /\ pc = "U28"
    /\ ret' = U28_read(input, pos)
    /\ pos' = IF ret'.st = "ok" THEN ret'.pos ELSE pos
    /\ pc' = "returned"
    /\ UNCHANGED <<stream, header, tracks, cur, events, previous_status, peeks,
                   result, arg>>

NextU28 == ReadU28

SpecU28 == InitU28 /\ [][NextU28]_vars

----------------------------------------------------------------------------
(* U14::read run alone on two payload bytes *)

PayloadBytes == {0, 1, 57, 84, 127, 128, 129, 185, 212, 255}

InitU14 ==
    /\ \E b1, b2 \in PayloadBytes, trail \in Trailers : input = <<b1, b2>> \o trail
    /\ eof = TRUE
    /\ supplied = <<"U14">>
    /\ pos = 0
    /\ pc = "U14"
    /\ header = NoHeader
    /\ tracks = <<>>
    /\ cur = NoTrack
    /\ events = <<>>
    /\ previous_status = 0
    /\ peeks = <<>>
    /\ result = [st |-> "None"]
    /\ arg = 0
    /\ ret = [st |-> "None"]

ReadU14 ==
    /\ pc = "U14"
    /\ ret' = U14_read(input, pos)
    /\ pos' = IF ret'.st = "ok" THEN ret'.pos ELSE pos
    /\ pc' = "returned"
    /\ UNCHANGED <<stream, header, tracks, cur, events, previous_status, peeks,
                   result, arg>>

NextU14 == ReadU14

SpecU14 == InitU14 /\ [][NextU14]_vars

----------------------------------------------------------------------------
(* Properties of the readers run alone *)

(* C8: for every v in 0..2^28-1, U28::read on the variable-length encoding *)
(* of v (1 to 4 bytes) returns exactly v and consumes exactly the bytes of *)
(* the encoding, leaving what follows unread: 82 80 00 FF gives 32768 and  *)
(* 81 7F FF gives 255 with the FF left.                                    *)
C8_U28RoundTrip ==
    pc = "returned" /\ supplied = <<"U28">> =>
        /\ Len(VlqEncode(arg)) \in 1..4
        /\ ret.st = "ok"
        /\ ret.val = arg
        /\ ret.pos = Len(VlqEncode(arg))
        /\ pos = Len(VlqEncode(arg))
        /\ (input = <<130, 128, 0, 255>> => ret.val = 32768 /\ pos = 3)
        /\ (input = <<129, 127, 255>> => ret.val = 255 /\ pos = 2)

C8_Witness ==
    /\ pc = "returned"
    /\ input = <<130, 128, 0, 255>>
    /\ arg = 32768
    /\ ret.st = "ok"
    /\ pos = 3

(* C9: timebase() of a decoded Smf returns 500000 / division when the      *)
(* division is positive (96 gives 5208) and 1000000 / (fps * tpf) when it  *)
(* is negative, fps = (division >> 8) & 0x7F and tpf = division & 0xFF.    *)
(* The quotient q of n by m is stated as q * m <= n < (q + 1) * m.         *)
C9_Timebase ==
    pc = "returned" /\ supplied = <<"Header">> =>
        LET division == result.smf.header.division
            fps == (division \div 256) % 128
            tpf == division % 256
        IN  /\ division > 0 =>
                /\ ret.st = "ok"
                /\ ret.val * division <= 500000
                /\ 500000 < (ret.val + 1) * division
            /\ division = 96 => ret.st = "ok" /\ ret.val = 5208
            /\ division < 0 =>
                /\ ret.st = "ok"
                /\ ret.val * (fps * tpf) <= 1000000
                /\ 1000000 < (ret.val + 1) * (fps * tpf)

(* C10: U14::read on the payload bytes b1, b2 returns                      *)
(* ((b2 & 0x7F) << 7) + (b1 & 0x7F), a value in 0..16383: 54 39 gives      *)
(* 0x1CD4 and 01 01 gives 0x81.                                            *)
C10_U14Packing ==
    pc = "returned" /\ supplied = <<"U14">> =>
        /\ ret.st = "ok"
        /\ ret.val = (input[2] % 128) * 128 + (input[1] % 128)
        /\ ret.val \in 0..16383
        /\ pos = 2
        /\ (SubSeq(input, 1, 2) = <<84, 57>> => ret.val = 7380)
        /\ (SubSeq(input, 1, 2) = <<1, 1>> => ret.val = 129)

C10_Witness ==
    /\ pc = "returned"
    /\ supplied = <<"U14">>
    /\ input = <<84, 57>>
    /\ ret.st = "ok"
    /\ ret.val = 7380


(* C11: every event decoded with its status byte omitted (the byte after   *)
(* the delta-time is below 0x80 and the stored status is reused) is a      *)
(* channel-voice (Midi) event; a byte below 0x80 after a meta or a         *)
(* system-exclusive event of the track never gives a Meta or Sysex event.  *)
C11_OmittedStatusIsMidi ==
    \A i \in 1..Len(events) :
        input[peeks[i]] < 128 => events[i].event.kind = "Midi"

(* The events of a finished track: the end-of-track event once, as the last *)
EndsOnce(evs) ==
    /\ evs # <<>>
    /\ EndOfTrackEvent(evs[Len(evs)].event)
    /\ \A j \in 1..(Len(evs) - 1) : ~EndOfTrackEvent(evs[j].event)

(* C12: an end-of-track meta event is appended to the events of its track  *)
(* and stops the loop of that track: every decoded track holds it exactly  *)
(* once, as its last event, no other event stops the loop, and the bytes   *)
(* after it are read as the tag of the next chunk.                         *)
C12_EndOfTrackEndsTrack ==
    [][ /\ \A k \in 1..Len(tracks') : EndsOnce(tracks'[k].events)
        /\ (result'.st = "Ok" => result'.smf.tracks = tracks')
        /\ (pc = "event" /\ events' # events) =>
              IF EndOfTrackEvent(events'[Len(events')].event)
              THEN /\ pc' = "track"
                   /\ tracks' = Append(tracks, [tag |-> cur.tag,
                                                track_len |-> cur.track_len,
                                                events |-> events'])
              ELSE /\ pc' = "event"
                   /\ tracks' = tracks
        /\ (pc = "track" /\ pos' # pos) =>
              /\ Tag_read(input, pos).st = "ok"
              /\ cur'.tag = Tag_read(input, pos).val
              /\ pos' = pos + 8
              /\ events' = <<>>
              /\ pc' = "event" ]_vars

C12_Witness ==
    /\ pc = "event"
    /\ supplied = <<"Header2", "Track", "TrackName", "EndOfTrack", "Track", "NoteOn">>
    /\ Len(tracks) = 1
    /\ Len(tracks[1].events) = 2
    /\ Len(events) = 1

(* C13: timebase() returns a value for every Smf the decode produces:      *)
(* whatever signed 16-bit division the header holds, 0 and the negative    *)
(* ones with a zero fps or tpf byte included, nothing is divided by zero.  *)
C13_TimebaseReturns ==
    pc = "returned" => ret.st = "ok"

============================================================================
